---- MODULE Spec2Model ----
(***************************************************************************)
(* Model of actions.js: the queue of block Actions, the periodic pass      *)
(* (processBlocks), the per-user batch (processActionsForUserId,           *)
(* processActionsForUser, blockUnlessFollowing) and the chained executor   *)
(* (blockUnlessFollowingWithFriendships, setActionStatus).                 *)
(*                                                                         *)
(* Every asynchronous call of the code (a store query, a save, a Twitter   *)
(* request) is a record that stays "in flight" until the action that       *)
(* models its callback resolves it, with every outcome the callback        *)
(* distinguishes.                                                          *)
(***************************************************************************)
EXTENDS Integers, Sequences, FiniteSets, TLC

\* ---- bounds of the model ----
MaxPasses == 2          \* invocations of processBlocks explored
MaxActions == 2         \* rows of the Actions table
MaxBatches == 3         \* invocations of processActionsForUserId explored
MaxSinkUids == 101      \* longest sinkUids list handed to blockUnlessFollowing
MaxList == 3            \* longest list handed to queueBlocks

\* ---- constants of the program ----
GroupLimit == 300       \* limit of the grouped query of processBlocks
ActionsLimit == 100     \* limit of getActions
SinkUidsLimit == 100    \* largest sinkUids list blockUnlessFollowing accepts

Uids == {1, 2}
ConnectionTags == {"blocking", "following"}

PENDING == "pending"
DONE == "done"
CANCELLED_FOLLOWING == "cancelled-following"
CANCELLED_DUPLICATE == "cancelled-duplicate"
CANCELLED_UNBLOCKED == "cancelled-unblocked"
CANCELLED_SELF == "cancelled-self"
DEFERRED_TARGET_SUSPENDED == "deferred-target-suspended"
NULL == "null"

VARIABLES
  Actions,    \* the Actions table: row id |-> [source_uid, sink_uid, status]
  passes,     \* number of processBlocks invocations so far
  findAll,    \* passes whose grouped Action.findAll query is in flight
  batches,    \* one record per processActionsForUserId invocation
  settled,    \* history: pass |-> the rows that were not pending when it started
  queued      \* the call of queueBlocks and the Action.create calls it made

vars == <<Actions, passes, findAll, batches, settled, queued>>

\* ---- helpers ----
Range(s) == {s[i] : i \in DOMAIN s}

Min(a, b) == IF a < b THEN a ELSE b

RECURSIVE Ascending(_)
Ascending(S) ==
  IF S = {} THEN <<>>
  ELSE LET m == CHOOSE x \in S : \A y \in S : x <= y
       IN <<m>> \o Ascending(S \ {m})

Take(s, n) == SubSeq(s, 1, Min(n, Len(s)))

\* ---- the store's queries ----

\* variant: the status filter left out of the where clause
PendingIdsUnfiltered == DOMAIN Actions

\* where: status = "pending" and type = "block" (every row is a block action)
PendingIds == {i \in DOMAIN Actions : Actions[i].status = PENDING}

\* variant: the query without group: 'source_uid' returns every pending row
GroupedPendingUngrouped == {PendingIds}

\* Action.findAll({where pending, group: 'source_uid', limit: 300}): the
\* possible results, each one representative row per source_uid.
GroupedPending ==
  LET sources == {Actions[i].source_uid : i \in PendingIds}
  IN {R \in SUBSET PendingIds :
        /\ \A i, j \in R : i # j => Actions[i].source_uid # Actions[j].source_uid
        /\ Cardinality(R) = Min(GroupLimit, Cardinality(sources))}

\* btUser.getActions({where pending, order: 'updatedAt ASC', limit: 100}).
\* A pending row has never been saved, so its updatedAt is its creation time
\* and the order is the order of the row ids.
getActions(uid) ==
  Take(Ascending({i \in PendingIds : Actions[i].source_uid = uid}), ActionsLimit)

\* The sink_uids of the rows of a user: the only entries of the user's
\* UnblockedUsers that the classifier can ever look for.
SinksOf(uid) ==
  {Actions[i].sink_uid : i \in {j \in DOMAIN Actions : Actions[j].source_uid = uid}}

\* ---- the end of a batch's chain of callbacks ----

\* Once no callback of a batch is in flight nothing refers to its closure any
\* more (btUser, indexedFriendships, the bound `next'): the record keeps only
\* how the chain ended and what it did.
Finish(rec, how) ==
  [rec EXCEPT !.stage = how, !.rep = 0, !.unblockedUsers = {}, !.sinkUids = {},
              !.indexedFriendships = <<>>]

Settle(rec, how) == IF rec.calls = {} THEN Finish(rec, how) ELSE rec

\* ---- the classifier of blockUnlessFollowingWithFriendships ----

\* variant: the 'following' test placed before the 'blocking' test
newStateFollowingFirst(uid, unblockedUsers, indexedFriendships, sink_uid) ==
  IF sink_uid \notin DOMAIN indexedFriendships THEN DEFERRED_TARGET_SUSPENDED
  ELSE IF "following" \in indexedFriendships[sink_uid] THEN CANCELLED_FOLLOWING
  ELSE IF "blocking" \in indexedFriendships[sink_uid] THEN CANCELLED_DUPLICATE
  ELSE IF sink_uid \in unblockedUsers THEN CANCELLED_UNBLOCKED
  ELSE IF uid = sink_uid THEN CANCELLED_SELF
  ELSE NULL

\* variant: the UnblockedUsers test left out
newStateNoUnblocked(uid, unblockedUsers, indexedFriendships, sink_uid) ==
  IF sink_uid \notin DOMAIN indexedFriendships THEN DEFERRED_TARGET_SUSPENDED
  ELSE IF "blocking" \in indexedFriendships[sink_uid] THEN CANCELLED_DUPLICATE
  ELSE IF "following" \in indexedFriendships[sink_uid] THEN CANCELLED_FOLLOWING
  ELSE IF uid = sink_uid THEN CANCELLED_SELF
  ELSE NULL

\* variant: the self test left out
newStateNoSelf(uid, unblockedUsers, indexedFriendships, sink_uid) ==
  IF sink_uid \notin DOMAIN indexedFriendships THEN DEFERRED_TARGET_SUSPENDED
  ELSE IF "blocking" \in indexedFriendships[sink_uid] THEN CANCELLED_DUPLICATE
  ELSE IF "following" \in indexedFriendships[sink_uid] THEN CANCELLED_FOLLOWING
  ELSE IF sink_uid \in unblockedUsers THEN CANCELLED_UNBLOCKED
  ELSE NULL

newState(uid, unblockedUsers, indexedFriendships, sink_uid) ==
  IF sink_uid \notin DOMAIN indexedFriendships THEN DEFERRED_TARGET_SUSPENDED
  ELSE IF "blocking" \in indexedFriendships[sink_uid] THEN CANCELLED_DUPLICATE
  ELSE IF "following" \in indexedFriendships[sink_uid] THEN CANCELLED_FOLLOWING
  ELSE IF sink_uid \in unblockedUsers THEN CANCELLED_UNBLOCKED
  ELSE IF uid = sink_uid THEN CANCELLED_SELF
  ELSE NULL

\* variant: a request for every action at once instead of the chain
IssuedCallsUnchained(uid, unblockedUsers, indexedFriendships, actions) ==
  {[op |-> IF newState(uid, unblockedUsers, indexedFriendships,
                       Actions[actions[i]].sink_uid) # NULL
           THEN "save" ELSE "blocks",
    action |-> actions[i],
    newState |-> newState(uid, unblockedUsers, indexedFriendships,
                          Actions[actions[i]].sink_uid),
    next |-> <<>>] : i \in DOMAIN actions}

\* variant: DONE is saved at once instead of after the blocks/create request
IssuedCallsOptimistic(uid, unblockedUsers, indexedFriendships, actions) ==
  IF Len(actions) < 1 THEN {}
  ELSE LET action == Head(actions)
           state == newState(uid, unblockedUsers, indexedFriendships,
                             Actions[action].sink_uid)
       IN {[op |-> "save",
            action |-> action,
            newState |-> IF state # NULL THEN state ELSE DONE,
            next |-> Tail(actions)]}

\* variant: the chain takes the last action of the list first
IssuedCallsLastFirst(uid, unblockedUsers, indexedFriendships, actions) ==
  IF Len(actions) < 1 THEN {}
  ELSE LET action == actions[Len(actions)]
           state == newState(uid, unblockedUsers, indexedFriendships,
                             Actions[action].sink_uid)
       IN {[op |-> IF state # NULL THEN "save" ELSE "blocks",
            action |-> action,
            newState |-> state,
            next |-> SubSeq(actions, 1, Len(actions) - 1)]}

\* The call one invocation of blockUnlessFollowingWithFriendships leaves in
\* flight: nothing for an empty list, else a save (setActionStatus) or a
\* blocks/create request for actions[0]; `next' is bound to actions.slice(1).
IssuedCalls(uid, unblockedUsers, indexedFriendships, actions) ==
  IF Len(actions) < 1 THEN {}
  ELSE LET action == Head(actions)
           state == newState(uid, unblockedUsers, indexedFriendships,
                             Actions[action].sink_uid)
       IN {[op |-> IF state # NULL THEN "save" ELSE "blocks",
            action |-> action,
            newState |-> state,
            next |-> Tail(actions)]}

blockUnlessFollowingWithFriendships(rec, actions) ==
  LET issued == IssuedCalls(rec.uid, rec.unblockedUsers,
                            rec.indexedFriendships, actions)
  IN Settle([rec EXCEPT !.stage = "exec",
                        !.steps = @ + 1,
                        !.calls = @ \cup issued,
                        !.processed = @ \cup {c.action : c \in issued}],
            "drained")

\* setActionStatus(action, newState, next): the save is in flight
setActionStatus(rec, action, state, next) ==
  [rec EXCEPT !.calls = @ \cup {[op |-> "save", action |-> action,
                                  newState |-> state, next |-> next]}]

\* variant: the guard off by one
tooManySinkUidsOffByOne(sinkUids) == Len(sinkUids) >= SinkUidsLimit

\* the guard at the head of blockUnlessFollowing
tooManySinkUids(sinkUids) == Len(sinkUids) > SinkUidsLimit

\* blockUnlessFollowing(sourceBtUser, sinkUids, actions)
blockUnlessFollowing(rec, sinkUids, actions) ==
  IF tooManySinkUids(sinkUids)
  THEN Finish([rec EXCEPT !.actions = actions], "tooMany")
  ELSE [rec EXCEPT !.stage = "lookup", !.actions = actions,
                   !.sinkUids = Range(sinkUids), !.lookups = @ + 1]

\* processActionsForUser(btUser, actions)
processActionsForUser(rec, actions) ==
  IF Len(actions) > 0
  THEN blockUnlessFollowing(rec, [i \in DOMAIN actions |-> Actions[actions[i]].sink_uid],
                            actions)
  ELSE Finish(rec, "empty")

\* processActionsForUserId(uid): BtUser.find is in flight
NewBatch(pass, rep) ==
  [pass |-> pass, rep |-> rep, uid |-> Actions[rep].source_uid,
   stage |-> "find", unblockedUsers |-> {}, actions |-> <<>>,
   sinkUids |-> {}, indexedFriendships |-> <<>>, lookups |-> 0,
   response |-> "none", calls |-> {}, processed |-> {}, failed |-> {},
   steps |-> 0, saves |-> 0, account |-> "none", written |-> {}]

\* no call of queueBlocks
NoQueue == [source_uid |-> 0, list |-> <<>>, called |-> FALSE,
            creates |-> <<>>, errors |-> {}]

\* ---- initial states ----
\* The table when the process starts: up to MaxActions pending rows (the two
\* uids are interchangeable: the first row is taken to be a row of user 1).
InitialTables ==
  {t \in UNION {[1..n -> [source_uid : Uids, sink_uid : Uids, status : {PENDING}]]
                  : n \in 1..MaxActions} : t[1].source_uid = 1}

Init ==
  /\ Actions \in InitialTables
  /\ passes = 0
  /\ findAll = {}
  /\ batches = <<>>
  /\ settled = <<>>
  /\ queued = NoQueue

\* ---- the pass ----

\* variant: a tick of the timer is dropped while a pass is in progress
processBlocksSingleFlight ==
  /\ passes < MaxPasses
  /\ findAll = {}
  /\ \A b \in DOMAIN batches :
       batches[b].calls = {} /\ batches[b].stage \notin {"find", "getActions", "lookup"}
  /\ passes' = passes + 1
  /\ findAll' = findAll \cup {passes + 1}
  /\ settled' = Append(settled, {i \in DOMAIN Actions : Actions[i].status # PENDING})
  /\ UNCHANGED <<Actions, batches, queued>>

\* processBlocks(), run at startup and by setInterval: issues the grouped query
processBlocks ==
  /\ passes < MaxPasses
  /\ passes' = passes + 1
  /\ findAll' = findAll \cup {passes + 1}
  /\ settled' = Append(settled, {i \in DOMAIN Actions : Actions[i].status # PENDING})
  /\ UNCHANGED <<Actions, batches, queued>>

\* the grouped query fails: the error is printed
findAllError(p) ==
  /\ p \in findAll
  /\ findAll' = findAll \ {p}
  /\ UNCHANGED <<Actions, passes, batches, settled, queued>>

\* the grouped query succeeds: processActionsForUserId for each row returned
\* (the exploration stops at MaxBatches invocations in all)
findAllSuccess(p) ==
  /\ p \in findAll
  /\ findAll' = findAll \ {p}
  /\ \E R \in GroupedPending :
       /\ Len(batches) + Cardinality(R) <= MaxBatches
       /\ LET reps == Ascending(R)
          IN batches' = batches \o [i \in DOMAIN reps |-> NewBatch(p, reps[i])]
  /\ UNCHANGED <<Actions, passes, settled, queued>>

\* BtUser.find fails (`account' records the outcome of the query)
findUserError(b) ==
  /\ batches[b].stage = "find"
  /\ batches' = [batches EXCEPT ![b] = Finish([@ EXCEPT !.account = "error"], "findError")]
  /\ UNCHANGED <<Actions, passes, findAll, settled, queued>>

\* variant: getActions is issued without the test of btUser
onBtUserUnchecked(rec, found, unblocked) ==
  [rec EXCEPT !.stage = "getActions", !.rep = 0, !.unblockedUsers = unblocked]

\* the .success callback of BtUser.find: if (btUser) getActions, else
\* 'User not found'
onBtUser(rec, found, unblocked) ==
  IF found
  THEN [rec EXCEPT !.stage = "getActions", !.rep = 0, !.unblockedUsers = unblocked]
  ELSE Finish(rec, "notFound")

\* BtUser.find returns no user
findUserNotFound(b) ==
  /\ batches[b].stage = "find"
  /\ batches' = [batches EXCEPT ![b] =
       onBtUser([@ EXCEPT !.account = "missing"], FALSE, {})]
  /\ UNCHANGED <<Actions, passes, findAll, settled, queued>>

\* BtUser.find returns the user with its UnblockedUsers: getActions is issued
findUserSuccess(b) ==
  /\ batches[b].stage = "find"
  /\ \E unblocked \in SUBSET SinksOf(batches[b].uid) :
       batches' = [batches EXCEPT ![b] =
         onBtUser([@ EXCEPT !.account = "found"], TRUE, unblocked)]
  /\ UNCHANGED <<Actions, passes, findAll, settled, queued>>

\* getActions fails
getActionsError(b) ==
  /\ batches[b].stage = "getActions"
  /\ batches' = [batches EXCEPT ![b] = Finish(@, "getActionsError")]
  /\ UNCHANGED <<Actions, passes, findAll, settled, queued>>

\* getActions succeeds: processActionsForUser(btUser, actions)
getActionsSuccess(b) ==
  /\ batches[b].stage = "getActions"
  /\ batches' = [batches EXCEPT ![b] = processActionsForUser(@, getActions(@.uid))]
  /\ UNCHANGED <<Actions, passes, findAll, settled, queued>>

\* variant: the callback classifies although the lookup failed
onFriendshipsIgnoringErr(rec, err, friendships) ==
  blockUnlessFollowingWithFriendships(
    [rec EXCEPT !.indexedFriendships = friendships], rec.actions)

\* the callback of friendships/lookup
onFriendships(rec, err, friendships) ==
  IF err
  THEN Finish(rec, "lookupError")
  ELSE blockUnlessFollowingWithFriendships(
         [rec EXCEPT !.indexedFriendships = friendships], rec.actions)

\* friendships/lookup returns an error
lookupError(b) ==
  /\ batches[b].stage = "lookup"
  /\ batches' = [batches EXCEPT ![b] =
       onFriendships([@ EXCEPT !.response = "error"], TRUE, <<>>)]
  /\ UNCHANGED <<Actions, passes, findAll, settled, queued>>

\* friendships/lookup returns the friendships of some of the requested ids
lookupSuccess(b) ==
  /\ batches[b].stage = "lookup"
  /\ \E present \in SUBSET batches[b].sinkUids :
       \E friendships \in [present -> SUBSET ConnectionTags] :
         batches' = [batches EXCEPT ![b] =
           onFriendships([@ EXCEPT !.response = "ok"], FALSE, friendships)]
  /\ UNCHANGED <<Actions, passes, findAll, settled, queued>>

\* variant: the callback sets DONE although the request failed
onBlocksCreateIgnoringErr(rec, c, err) ==
  setActionStatus([rec EXCEPT !.calls = @ \ {c}], c.action, DONE, c.next)

\* variant: a successful write is entered into the relationship map as
\* 'blocking'
onBlocksCreateRefreshing(rec, c, err) ==
  IF err
  THEN Settle([rec EXCEPT !.calls = @ \ {c}], "stalled")
  ELSE setActionStatus(
         [rec EXCEPT !.calls = @ \ {c},
                     !.indexedFriendships =
                       [s \in DOMAIN @ |->
                          IF s = Actions[c.action].sink_uid
                          THEN @[s] \cup {"blocking"} ELSE @[s]]],
         c.action, DONE, c.next)

\* the callback of blocks/create
onBlocksCreate(rec, c, err) ==
  IF err
  THEN Settle([rec EXCEPT !.calls = @ \ {c}], "stalled")
  ELSE setActionStatus([rec EXCEPT !.calls = @ \ {c}], c.action, DONE, c.next)

\* blocks/create returns an error (`failed' records it)
blocksCreateError(b) ==
  /\ \E c \in batches[b].calls :
       /\ c.op = "blocks"
       /\ batches' = [batches EXCEPT ![b] =
            onBlocksCreate([@ EXCEPT !.failed = @ \cup {c.action}], c, TRUE)]
  /\ UNCHANGED <<Actions, passes, findAll, settled, queued>>

\* blocks/create succeeds (`written' records it)
blocksCreateSuccess(b) ==
  /\ \E c \in batches[b].calls :
       /\ c.op = "blocks"
       /\ batches' = [batches EXCEPT ![b] =
            onBlocksCreate([@ EXCEPT !.written = @ \cup {c.action}], c, FALSE)]
  /\ UNCHANGED <<Actions, passes, findAll, settled, queued>>

\* variant: the .error callback of the save only logs
onSaveErrorOnlyLogs(rec, c, err) ==
  IF err
  THEN Settle([rec EXCEPT !.calls = @ \ {c}], "stalled")
  ELSE blockUnlessFollowingWithFriendships([rec EXCEPT !.calls = @ \ {c}], c.next)

\* the callbacks of action.save(): .error logs and calls next(), .success is
\* next itself
onSave(rec, c, err) ==
  blockUnlessFollowingWithFriendships([rec EXCEPT !.calls = @ \ {c}], c.next)

\* action.save() fails: the error is logged and next() runs (`saves' counts
\* the saves of the batch that have resolved)
saveError(b) ==
  /\ \E c \in batches[b].calls :
       /\ c.op = "save"
       /\ batches' = [batches EXCEPT ![b] =
            onSave([@ EXCEPT !.saves = @ + 1], c, TRUE)]
  /\ UNCHANGED <<Actions, passes, findAll, settled, queued>>

\* variant: the status is stored in every row with the sink of the action
savedTableBySink(c) ==
  [i \in DOMAIN Actions |->
     IF Actions[i].sink_uid = Actions[c.action].sink_uid
     THEN [Actions[i] EXCEPT !.status = c.newState]
     ELSE Actions[i]]

\* action.status = newState; action.save(): the table after the save
savedTable(c) == [Actions EXCEPT ![c.action].status = c.newState]

\* action.save() succeeds: the row holds the new status and next() runs
saveSuccess(b) ==
  /\ \E c \in batches[b].calls :
       /\ c.op = "save"
       /\ Actions' = savedTable(c)
       /\ batches' = [batches EXCEPT ![b] =
            onSave([@ EXCEPT !.saves = @ + 1], c, FALSE)]
  /\ UNCHANGED <<passes, findAll, settled, queued>>

Next ==
  \/ processBlocks
  \/ \E p \in findAll : findAllError(p)
  \/ \E p \in findAll : findAllSuccess(p)
  \/ \E b \in DOMAIN batches : findUserError(b)
  \/ \E b \in DOMAIN batches : findUserNotFound(b)
  \/ \E b \in DOMAIN batches : findUserSuccess(b)
  \/ \E b \in DOMAIN batches : getActionsError(b)
  \/ \E b \in DOMAIN batches : getActionsSuccess(b)
  \/ \E b \in DOMAIN batches : lookupError(b)
  \/ \E b \in DOMAIN batches : lookupSuccess(b)
  \/ \E b \in DOMAIN batches : blocksCreateError(b)
  \/ \E b \in DOMAIN batches : blocksCreateSuccess(b)
  \/ \E b \in DOMAIN batches : saveError(b)
  \/ \E b \in DOMAIN batches : saveSuccess(b)

Spec == Init /\ [][Next]_vars

\* ---- blockUnlessFollowing on its own ----

\* blockUnlessFollowing is about to be called for user 1 with n sink uids (and
\* the n pending actions they come from), n up to MaxSinkUids.
InitValidator ==
  /\ \E n \in 0..MaxSinkUids : \E sink \in Uids :
       /\ Actions = [i \in 1..n |-> [source_uid |-> 1, sink_uid |-> sink,
                                      status |-> PENDING]]
       /\ batches = <<[pass |-> 0, rep |-> 0, uid |-> 1, stage |-> "call",
                       unblockedUsers |-> {}, actions |-> [i \in 1..n |-> i],
                       sinkUids |-> {}, indexedFriendships |-> <<>>,
                       lookups |-> 0, response |-> "none", calls |-> {},
                       processed |-> {}, failed |-> {},
                       steps |-> 0, saves |-> 0, account |-> "found",
                       written |-> {}]>>
  /\ passes = 0
  /\ findAll = {}
  /\ settled = <<>>
  /\ queued = NoQueue

callBlockUnlessFollowing(b) ==
  /\ batches[b].stage = "call"
  /\ batches' = [batches EXCEPT ![b] =
       blockUnlessFollowing(
         @, [i \in DOMAIN @.actions |-> Actions[@.actions[i]].sink_uid], @.actions)]
  /\ UNCHANGED <<Actions, passes, findAll, settled, queued>>

NextValidator ==
  \/ \E b \in DOMAIN batches : callBlockUnlessFollowing(b)
  \/ \E b \in DOMAIN batches : lookupError(b)
  \/ \E b \in DOMAIN batches : lookupSuccess(b)

SpecValidator == InitValidator /\ [][NextValidator]_vars

\* ---- queueBlocks ----

\* queueBlocks is about to be called with a source uid and a list of up to
\* MaxList sink uids; the table is empty.
InitQueue ==
  /\ Actions = <<>>
  /\ passes = 0
  /\ findAll = {}
  /\ batches = <<>>
  /\ settled = <<>>
  /\ \E source \in Uids : \E n \in 0..MaxList : \E list \in [1..n -> Uids] :
       queued = [NoQueue EXCEPT !.source_uid = source, !.list = list]

\* queueBlocks(source_uid, list): list.map issues one Action.create per element
queueBlocks ==
  /\ ~queued.called
  /\ queued' = [queued EXCEPT !.called = TRUE,
                              !.creates = [i \in DOMAIN queued.list |-> "create"]]
  /\ UNCHANGED <<Actions, passes, findAll, batches, settled>>

\* Action.create succeeds: the row is in the table, with the default status
createSuccess(i) ==
  /\ queued.creates[i] = "create"
  /\ Actions' = Append(Actions, [source_uid |-> queued.source_uid,
                                 sink_uid |-> queued.list[i],
                                 status |-> PENDING])
  /\ queued' = [queued EXCEPT !.creates[i] = "created"]
  /\ UNCHANGED <<passes, findAll, batches, settled>>

\* variant: an error gives up the creations still in flight
onCreateErrorAbortsAll(q, i) ==
  [q EXCEPT !.creates = [j \in DOMAIN @ |-> IF @[j] = "create" THEN "failed" ELSE @[j]]]

\* the .error callback of Action.create: the error is logged
onCreateError(q, i) == [q EXCEPT !.creates[i] = "failed"]

\* Action.create fails (`errors' records which call did)
createError(i) ==
  /\ queued.creates[i] = "create"
  /\ queued' = onCreateError([queued EXCEPT !.errors = @ \cup {i}], i)
  /\ UNCHANGED <<Actions, passes, findAll, batches, settled>>

NextQueue ==
  \/ queueBlocks
  \/ \E i \in DOMAIN queued.creates : createSuccess(i)
  \/ \E i \in DOMAIN queued.creates : createError(i)

SpecQueue == InitQueue /\ [][NextQueue]_vars

\* ======================= properties =======================

Ended(b) == batches[b].stage \in {"drained", "stalled"}

\* the facts the classifier reads for the action of a call in flight
SinkOf(c) == Actions[c.action].sink_uid
HasEntry(b, c) == SinkOf(c) \in DOMAIN batches[b].indexedFriendships
Tagged(b, c, tag) == HasEntry(b, c) /\ tag \in batches[b].indexedFriendships[SinkOf(c)]
Suppressed(b, c) == SinkOf(c) \in batches[b].unblockedUsers
IsSelf(b, c) == batches[b].uid = SinkOf(c)
\* the call is a write or the save that follows a successful write
IsWrite(c) == c.op = "blocks" \/ c.newState = DONE

\* C1: a batch whose lookup succeeded processes every one of its actions
\* whatever the outcomes of the writes: when its chain of callbacks has ended,
\* each action of the batch has been classified or write-attempted.
C1_BatchIsDrained ==
  \A b \in DOMAIN batches :
    Ended(b) => batches[b].processed = Range(batches[b].actions)

\* C2: the outcome chosen for an action is the first match of the ordered
\* rules (no entry, blocking, following, suppressed, self, else write), one
\* outcome for every combination of the conditions.
C2_FirstMatchWins ==
  \A b \in DOMAIN batches : \A c \in batches[b].calls :
    /\ (c.newState = DEFERRED_TARGET_SUSPENDED) <=> ~HasEntry(b, c)
    /\ (c.newState = CANCELLED_DUPLICATE) <=> Tagged(b, c, "blocking")
    /\ (c.newState = CANCELLED_FOLLOWING) <=>
         (Tagged(b, c, "following") /\ ~Tagged(b, c, "blocking"))
    /\ (c.newState = CANCELLED_UNBLOCKED) <=>
         (/\ HasEntry(b, c) /\ ~Tagged(b, c, "blocking")
          /\ ~Tagged(b, c, "following") /\ Suppressed(b, c))
    /\ (c.newState = CANCELLED_SELF) <=>
         (/\ HasEntry(b, c) /\ ~Tagged(b, c, "blocking")
          /\ ~Tagged(b, c, "following") /\ ~Suppressed(b, c) /\ IsSelf(b, c))
    /\ IsWrite(c) <=>
         (/\ HasEntry(b, c) /\ ~Tagged(b, c, "blocking")
          /\ ~Tagged(b, c, "following") /\ ~Suppressed(b, c) /\ ~IsSelf(b, c))

\* an action with both tags is being saved as CANCELLED_DUPLICATE
C2_Witness ==
  \E b \in DOMAIN batches : \E c \in batches[b].calls :
    /\ Tagged(b, c, "blocking") /\ Tagged(b, c, "following")
    /\ c.op = "save" /\ c.newState = CANCELLED_DUPLICATE

\* C3: a blocks/create request is in flight only for an action whose sink has
\* an entry without 'blocking' and 'following', is not in the UnblockedUsers
\* of the source and is not the source itself.
C3_WriteOnlyWhenClear ==
  \A b \in DOMAIN batches : \A c \in batches[b].calls :
    c.op = "blocks" =>
      /\ HasEntry(b, c)
      /\ batches[b].indexedFriendships[SinkOf(c)] \cap {"blocking", "following"} = {}
      /\ ~Suppressed(b, c)
      /\ ~IsSelf(b, c)

\* a write is in flight in a batch whose user has a suppressed sink
C3_Witness ==
  \E b \in DOMAIN batches : \E c \in batches[b].calls :
    c.op = "blocks" /\ batches[b].unblockedUsers # {}

\* C4: a row whose source_uid equals its sink_uid never holds the status DONE.
C4_SelfNeverDone ==
  \A i \in DOMAIN Actions :
    Actions[i].source_uid = Actions[i].sink_uid => Actions[i].status # DONE

\* a self action has been classified with a clear entry and saved
C4_Witness ==
  \E i \in DOMAIN Actions :
    /\ Actions[i].source_uid = Actions[i].sink_uid
    /\ Actions[i].status = CANCELLED_SELF

\* C5: the stored status of a row changes at most once: once it is not
\* PENDING no step changes it.
C5_StatusChangesOnce ==
  [][\A i \in DOMAIN Actions :
       Actions[i].status # PENDING => Actions'[i].status = Actions[i].status]_vars

\* C6: when blocks/create fails for an action no row changes and no save is
\* issued for the action; if its row is PENDING it stays PENDING and both
\* selection queries still return it (its source is enumerated, the action
\* is in the user's batch), however often it has failed before.
C6_FailedWriteStaysPending ==
  [][\A b \in DOMAIN batches : \A a \in batches'[b].failed \ batches[b].failed :
       /\ Actions' = Actions
       /\ \A c \in batches'[b].calls : c.action # a
       /\ Actions[a].status = PENDING =>
            /\ Actions'[a].status = PENDING
            /\ a \in Range(getActions(batches[b].uid))'
            /\ \A R \in GroupedPending' :
                 \E r \in R : Actions[r].source_uid = batches[b].uid]_vars

\* the write of one action has failed in two batches and the row is PENDING
C6_Witness ==
  \E b1, b2 \in DOMAIN batches :
    /\ b1 < b2
    /\ \E a \in batches[b1].failed \cap batches[b2].failed :
         Actions[a].status = PENDING

\* C7: blockUnlessFollowing called with more than 100 sink uids issues no
\* lookup and classifies nothing; called with 1 to 100 it issues one lookup.
C7_BatchSizeContract ==
  \A b \in DOMAIN batches :
    batches[b].stage # "call" =>
      /\ Len(batches[b].actions) > 100 =>
           /\ batches[b].lookups = 0
           /\ batches[b].response = "none"
           /\ batches[b].calls = {} /\ batches[b].processed = {}
      /\ Len(batches[b].actions) \in 1..100 => batches[b].lookups = 1

\* the call with 101 sink uids has returned
C7_Witness ==
  \E b \in DOMAIN batches :
    batches[b].stage = "tooMany" /\ Len(batches[b].actions) = 101

\* C8: when friendships/lookup fails no row changes, the batch issues no
\* save and no blocks/create and classifies nothing, and every action of the
\* batch that is PENDING is still returned by the user's selection query.
C8_LookupFailureSkipsBatch ==
  [][\A b \in DOMAIN batches :
       (batches[b].response = "none" /\ batches'[b].response = "error") =>
         /\ Actions' = Actions
         /\ batches'[b].calls = {} /\ batches'[b].processed = {}
         /\ \A a \in Range(batches[b].actions) :
              Actions[a].status = PENDING =>
                a \in Range(getActions(batches[b].uid))']_vars

\* a lookup failed, its actions are PENDING and a later pass has loaded them
C8_Witness ==
  \E b1, b2 \in DOMAIN batches :
    /\ batches[b1].response = "error"
    /\ batches[b2].pass > batches[b1].pass
    /\ batches[b2].stage = "lookup"
    /\ batches[b2].actions = batches[b1].actions
    /\ \A a \in Range(batches[b1].actions) : Actions[a].status = PENDING

\* C9: a row that was not PENDING when a pass started is returned by neither
\* selection query of that pass: it is no representative and in no batch.
C9_SettledNeverSelected ==
  \A b \in DOMAIN batches :
    batches[b].pass \in DOMAIN settled =>
      \A a \in settled[batches[b].pass] :
        a # batches[b].rep /\ a \notin Range(batches[b].actions)

\* a batch has loaded actions of a user who had a settled row at the start
C9_Witness ==
  \E b \in DOMAIN batches :
    /\ batches[b].pass \in DOMAIN settled
    /\ batches[b].actions # <<>>
    /\ \E a \in settled[batches[b].pass] :
         Actions[a].source_uid = batches[b].uid

\* C10: within a batch a blocks/create request in flight is the only call of
\* the batch in flight: no second write and no save are pending beside it.
C10_OneWriteInFlight ==
  \A b \in DOMAIN batches : \A c \in batches[b].calls :
    c.op = "blocks" => batches[b].calls = {c}

\* the write of the second action is in flight after the first one is DONE
C10_Witness ==
  \E b \in DOMAIN batches : \E c \in batches[b].calls :
    /\ passes = 1
    /\ c.op = "blocks"
    /\ Len(batches[b].actions) = 2
    /\ c.action = batches[b].actions[2]
    /\ Actions[batches[b].actions[1]].status = DONE

\* C11: every save that resolves, with success or with an error, runs the
\* continuation exactly once: the executor has been entered once after the
\* lookup and once more for each save of the batch that has resolved.
C11_NextOncePerSave ==
  \A b \in DOMAIN batches :
    batches[b].response = "ok" => batches[b].steps = batches[b].saves + 1

\* the save of the first action failed (its row is still PENDING) and the
\* second action has its call in flight
C11_Witness ==
  \E b \in DOMAIN batches : \E c \in batches[b].calls :
    /\ passes = 1
    /\ Len(batches[b].actions) = 2
    /\ c.action = batches[b].actions[2]
    /\ batches[b].saves = 1
    /\ Actions[batches[b].actions[1]].status = PENDING

\* C12: queueBlocks issues one Action.create per element of the list,
\* duplicates included; a creation is given up only when that very call
\* failed, and then for good; the table holds one PENDING row of the source
\* for each creation that succeeded.
C12_OneCreatePerElement ==
  queued.called =>
    /\ DOMAIN queued.creates = DOMAIN queued.list
    /\ {i \in DOMAIN queued.creates : queued.creates[i] = "failed"} = queued.errors
    /\ \A i \in DOMAIN Actions :
         Actions[i].status = PENDING /\ Actions[i].source_uid = queued.source_uid
    /\ \A sink \in Uids :
         Cardinality({i \in DOMAIN Actions : Actions[i].sink_uid = sink})
           = Cardinality({i \in DOMAIN queued.list :
                            queued.list[i] = sink /\ queued.creates[i] = "created"})

\* one creation failed, two rows for the same sink exist, nothing is in flight
C12_Witness ==
  /\ queued.errors # {}
  /\ \E i, j \in DOMAIN Actions :
       i # j /\ Actions[i].sink_uid = Actions[j].sink_uid
  /\ \A i \in DOMAIN queued.creates : queued.creates[i] # "create"

\* C13: when BtUser.find fails or returns no user, the batch of that source
\* is skipped: the step changes no row and no other batch, and the batch
\* never loads actions, issues a lookup, a save or a blocks/create.
C13_MissingAccountSkipsBatch ==
  [][\A b \in DOMAIN batches :
       batches'[b].account \in {"missing", "error"} =>
         /\ batches'[b].stage \in {"notFound", "findError"}
         /\ batches'[b].actions = <<>> /\ batches'[b].lookups = 0
         /\ batches'[b].calls = {} /\ batches'[b].processed = {}
         /\ batches[b].account = "none" =>
              /\ Actions' = Actions
              /\ \A o \in DOMAIN batches : o # b => batches'[o] = batches[o]]_vars

\* the account of one source was not found, its row is PENDING, and the
\* batch of the other source of the same pass has run to its end
C13_Witness ==
  \E b, o \in DOMAIN batches :
    /\ batches[b].account = "missing"
    /\ batches[o].pass = batches[b].pass /\ batches[o].uid # batches[b].uid
    /\ batches[o].stage = "drained"
    /\ \A i \in DOMAIN Actions :
         Actions[i].source_uid = batches[b].uid => Actions[i].status = PENDING
    /\ \E i \in DOMAIN Actions :
         Actions[i].source_uid = batches[o].uid /\ Actions[i].status # PENDING

\* C14: nothing keeps a pass from starting while another is in progress, and
\* an action whose call is in flight is still selected while its row is
\* PENDING: whenever a batch is in progress the timer can start a pass, and
\* the user's selection query returns the action the batch is working on.
C14_PassesMayOverlap ==
  \A b \in DOMAIN batches :
    (batches[b].calls # {} \/ batches[b].stage \in {"find", "getActions", "lookup"}) =>
      /\ passes < MaxPasses => ENABLED processBlocks
      /\ \A c \in batches[b].calls :
           Actions[c.action].status = PENDING =>
             c.action \in Range(getActions(batches[b].uid))

\* the batches of two passes have a blocks/create request in flight for the
\* same action
C14_Witness ==
  \E b1, b2 \in DOMAIN batches :
    /\ batches[b1].pass # batches[b2].pass
    /\ batches[b1].uid = batches[b2].uid
    /\ \E c1 \in batches[b1].calls : \E c2 \in batches[b2].calls :
         c1.op = "blocks" /\ c2.op = "blocks" /\ c1.action = c2.action

\* C15: a batch works through its actions in the order they were loaded
\* (ascending row order): while the call of the action at position i is in
\* flight, exactly the actions at positions 1..i have been classified or
\* written and the actions after i wait in the continuation, in order.
C15_InputOrder ==
  \A b \in DOMAIN batches :
    /\ \A i, j \in DOMAIN batches[b].actions :
         i < j => batches[b].actions[i] < batches[b].actions[j]
    /\ \A c \in batches[b].calls :
         \E i \in DOMAIN batches[b].actions :
           /\ batches[b].actions[i] = c.action
           /\ batches[b].processed = {batches[b].actions[k] : k \in 1..i}
           /\ c.next = SubSeq(batches[b].actions, i + 1, Len(batches[b].actions))

\* the call of the second action is in flight, the first one was saved
C15_Witness ==
  \E b \in DOMAIN batches : \E c \in batches[b].calls :
    /\ Len(batches[b].actions) = 2
    /\ c.action = batches[b].actions[2]
    /\ c.op = "save"
    /\ batches[b].saves = 1
    /\ Actions[batches[b].actions[1]].status \notin {PENDING, DONE}

\* C16: a row holds DONE only if a blocks/create request issued for that
\* action by a batch of its source has returned success before.
C16_DoneOnlyAfterWrite ==
  \A i \in DOMAIN Actions :
    Actions[i].status = DONE =>
      \E b \in DOMAIN batches :
        i \in batches[b].written /\ batches[b].uid = Actions[i].source_uid

\* a row is DONE
C16_Witness ==
  \E i \in DOMAIN Actions : \E b \in DOMAIN batches :
    Actions[i].status = DONE /\ i \in batches[b].written

\* C17: in one pass at most one friendships/lookup call is issued for a
\* source account, whatever the number of its pending actions (at most
\* ActionsLimit are loaded), and none for an account whose loaded batch is
\* empty.
C17_OneLookupPerSource ==
  /\ \A p \in 1..MaxPasses : \A u \in Uids :
       LET looked == {b \in DOMAIN batches :
                        /\ batches[b].pass = p
                        /\ batches[b].uid = u
                        /\ batches[b].lookups > 0}
       IN /\ Cardinality(looked) <= 1
          /\ \A b \in looked : batches[b].lookups = 1
  /\ \A b \in DOMAIN batches :
       /\ Len(batches[b].actions) <= ActionsLimit
       /\ batches[b].stage = "empty" => batches[b].lookups = 0
       /\ batches[b].lookups > 0 => Len(batches[b].actions) > 0

\* one lookup was issued for a batch of two actions, and another batch of the
\* same account was loaded empty
C17_Witness ==
  \E b1, b2 \in DOMAIN batches :
    /\ batches[b1].lookups = 1 /\ Len(batches[b1].actions) = 2
    /\ batches[b2].stage = "empty" /\ batches[b2].lookups = 0
    /\ batches[b2].uid = batches[b1].uid

\* C18: the relationship map of a batch is the one the lookup returned, for
\* the whole batch. When two actions of a batch have the same sink and the
\* write of the first has succeeded, the call issued for the second is a write
\* too, never a save of CANCELLED_DUPLICATE; the save that follows a
\* successful write carries DONE, and when it succeeds the row holds DONE.
C18_MapNotRefreshed ==
  [][\A b \in DOMAIN batches' :
       /\ \A i, j \in DOMAIN batches'[b].actions :
            ( /\ i < j
              /\ Actions[batches'[b].actions[i]].sink_uid =
                   Actions[batches'[b].actions[j]].sink_uid
              /\ batches'[b].actions[i] \in batches'[b].written ) =>
              \A c \in batches'[b].calls :
                c.action = batches'[b].actions[j] =>
                  /\ c.op = "blocks" \/ c.newState = DONE
                  /\ c.newState # CANCELLED_DUPLICATE
       /\ \A c \in batches'[b].calls :
            c.action \in batches'[b].written => c.op = "save" /\ c.newState = DONE
       /\ b \in DOMAIN batches =>
            /\ ( batches[b].stage = "exec" /\ batches'[b].stage = "exec" ) =>
                 batches'[b].indexedFriendships = batches[b].indexedFriendships
            /\ \A c \in batches[b].calls :
                 ( /\ c.op = "save"
                   /\ c.action \in batches[b].written
                   /\ batches'[b] # batches[b]
                   /\ Actions' # Actions ) =>
                   Actions'[c.action].status = DONE]_vars

\* two actions of one batch with the same sink were both written and both
\* rows are DONE
C18_Witness ==
  \E b \in DOMAIN batches : \E i, j \in DOMAIN batches[b].actions :
    /\ i < j
    /\ Actions[batches[b].actions[i]].sink_uid = Actions[batches[b].actions[j]].sink_uid
    /\ {batches[b].actions[i], batches[b].actions[j]} \subseteq batches[b].written
    /\ Actions[batches[b].actions[i]].status = DONE
    /\ Actions[batches[b].actions[j]].status = DONE

\* C19: a step changes the table only as the save of one batch: the row that
\* changes is the action of a save that batch has in flight, it is one of the
\* actions loaded into the batch and a row of the batch's source, and only its
\* status changes. Rows of other sources and rows of the same source that the
\* batch did not load are left as they are.
C19_OnlyBatchRowsChange ==
  [][Actions' # Actions =>
       \E b \in DOMAIN batches : \E c \in batches[b].calls :
         /\ c.op = "save"
         /\ c \notin batches'[b].calls
         /\ c.action \in Range(batches[b].actions)
         /\ Actions[c.action].source_uid = batches[b].uid
         /\ \A o \in DOMAIN batches \ {b} : batches'[o] = batches[o]
         /\ DOMAIN Actions' = DOMAIN Actions
         /\ \A i \in DOMAIN Actions :
              /\ i # c.action => Actions'[i] = Actions[i]
              /\ Actions'[i].source_uid = Actions[i].source_uid
              /\ Actions'[i].sink_uid = Actions[i].sink_uid]_vars

\* the only batch of a source has saved the status of its row while a row of
\* another source is still PENDING
C19_Witness ==
  \E b \in DOMAIN batches : \E a \in Range(batches[b].actions) :
    /\ \A o \in DOMAIN batches : batches[o].uid = batches[b].uid => o = b
    /\ batches[b].saves >= 1
    /\ Actions[a].status # PENDING
    /\ \E i \in DOMAIN Actions :
         /\ Actions[i].source_uid # batches[b].uid
         /\ Actions[i].status = PENDING

====
